---- MODULE Spec2Model ----
(***************************************************************************)
(* Model of the severity / occurrence / priority match-rate tools:         *)
(*   match-rates-script.py     the three normalizers, calculate_match_rates *)
(*                             and main                                    *)
(*   visualize_comparisons.py  parse_txt_file, parse_csv_file, main and    *)
(*                             create_comparison_visualization             *)
(*                                                                         *)
(* Python strings are sequences of one-character strings, so that          *)
(* upper-casing, substring tests, replace, strip and float() are computed  *)
(* character by character as the interpreter computes them.                *)
(***************************************************************************)
EXTENDS Integers, Sequences, FiniteSets, TLC

(***************************************************************************)
(* Bounds of the model.                                                    *)
(***************************************************************************)
\* fragments joined into one raw severity value
MaxParts == 2
\* whitespace characters put before and after a raw value
MaxPad == 1
\* rows of an input table
MaxRows == 2
\* rows of an input table that lacks a required column
MaxBadRows == 1
\* rows of the input file of a run of main
MaxMainRows == 1
\* input files of a run of the visualization main
MaxFiles == 2
\* measurements typed in manual entry mode
MaxManual == 1
\* largest whole percentage "<n>%" among the raw occurrence values
MaxPercent == 100

VARIABLES
  \* one call of a normalizer: which one, its argument, its return value
  kind, raw, canonical,
  \* one call of calculate_match_rates: the table, the local variables when
  \* it returns, its return value
  df, frame, ret,
  \* what has been printed
  stdout,
  \* one run of the match-rate main: the command line, the content of the
  \* input file, the place in main, the output file name, the files written
  args, csv, pc, output_file, files,
  \* one run of the visualization main: the command line with the input
  \* files, the index of the file being processed, data_list, the position
  \* of the file each entry of data_list came from (0: typed), labels, and
  \* what create_comparison_visualization charted and tabulated
  vargs, vi, data_list, origin, labels, chart, table

normVars == <<kind, raw, canonical>>

aggVars == <<df, frame, ret>>

mainVars == <<args, csv, output_file>>

vizVars == <<vargs, vi, data_list, origin, labels, chart, table>>

vars == <<kind, raw, canonical, df, frame, ret, stdout,
          args, csv, pc, output_file, files,
          vargs, vi, data_list, origin, labels, chart, table>>

(***************************************************************************)
(* Python str operations.                                                  *)
(***************************************************************************)
LowerChars ==
  <<"a","b","c","d","e","f","g","h","i","j","k","l","m",
    "n","o","p","q","r","s","t","u","v","w","x","y","z">>

UpperChars ==
  <<"A","B","C","D","E","F","G","H","I","J","K","L","M",
    "N","O","P","Q","R","S","T","U","V","W","X","Y","Z">>

Digits == <<"0","1","2","3","4","5","6","7","8","9">>

\* the characters str.strip() and float() treat as white space
Whitespace == {" ", "\t", "\n", "\r"}

SetMin(S) == CHOOSE x \in S : \A y \in S : x <= y

SetMax(S) == CHOOSE x \in S : \A y \in S : x >= y

UpperChar(c) ==
  IF \E i \in 1..26 : LowerChars[i] = c
  THEN UpperChars[CHOOSE i \in 1..26 : LowerChars[i] = c]
  ELSE c

LowerChar(c) ==
  IF \E i \in 1..26 : UpperChars[i] = c
  THEN LowerChars[CHOOSE i \in 1..26 : UpperChars[i] = c]
  ELSE c

\* str.upper()
Upper(s) == [i \in 1..Len(s) |-> UpperChar(s[i])]

\* str.lower()
Lower(s) == [i \in 1..Len(s) |-> LowerChar(s[i])]

\* sub in s
Contains(s, sub) ==
  \E i \in 0..(Len(s) - Len(sub)) : SubSeq(s, i + 1, i + Len(sub)) = sub

\* s.endswith(suffix)
EndsWith(s, suffix) ==
  /\ Len(suffix) <= Len(s)
  /\ SubSeq(s, Len(s) - Len(suffix) + 1, Len(s)) = suffix

\* s.strip()
Strip(s) ==
  LET keep == {i \in 1..Len(s) : s[i] \notin Whitespace}
  IN IF keep = {} THEN <<>> ELSE SubSeq(s, SetMin(keep), SetMax(keep))

\* s.replace(old, new), old not empty: every occurrence, left to right
RECURSIVE StrReplace(_, _, _)
StrReplace(s, old, new) ==
  IF Len(s) < Len(old) THEN s
  ELSE IF SubSeq(s, 1, Len(old)) = old
       THEN new \o StrReplace(SubSeq(s, Len(old) + 1, Len(s)), old, new)
       ELSE <<Head(s)>> \o StrReplace(Tail(s), old, new)

\* s.split(sep), sep one character: the pieces between the separators
RECURSIVE StrSplit(_, _)
StrSplit(s, sep) ==
  LET at == {i \in 1..Len(s) : s[i] = sep}
  IN IF at = {} THEN <<s>>
     ELSE <<SubSeq(s, 1, SetMin(at) - 1)>>
          \o StrSplit(SubSeq(s, SetMin(at) + 1, Len(s)), sep)

(***************************************************************************)
(* float(str).  The result is [ok, nan, inf, neg, mant, exp]: ok is FALSE  *)
(* where float() raises ValueError; otherwise the value is NaN, an         *)
(* infinity, or (-1)^neg * mant * 10^exp.                                  *)
(***************************************************************************)
IsDigit(c) == \E i \in 1..10 : Digits[i] = c

DigitVal(c) == (CHOOSE i \in 1..10 : Digits[i] = c) - 1

\* a digit group of a float literal: digits, single underscores between them
DigitGroupOK(s) ==
  /\ Len(s) > 0
  /\ \A i \in 1..Len(s) : IsDigit(s[i]) \/ s[i] = "_"
  /\ IsDigit(s[1]) /\ IsDigit(s[Len(s)])
  /\ \A i \in 1..(Len(s) - 1) : ~(s[i] = "_" /\ s[i + 1] = "_")

RECURSIVE DigitsToNat(_)
DigitsToNat(s) ==
  IF Len(s) = 0 THEN 0
  ELSE IF s[Len(s)] = "_" THEN DigitsToNat(SubSeq(s, 1, Len(s) - 1))
  ELSE DigitsToNat(SubSeq(s, 1, Len(s) - 1)) * 10 + DigitVal(s[Len(s)])

\* the digits of a group, underscores dropped
RECURSIVE DigitCount(_)
DigitCount(s) ==
  IF Len(s) = 0 THEN 0
  ELSE DigitCount(Tail(s)) + (IF Head(s) = "_" THEN 0 ELSE 1)

RECURSIVE Pow10(_)
Pow10(n) == IF n <= 0 THEN 1 ELSE 10 * Pow10(n - 1)

FloatError == [ok |-> FALSE, nan |-> FALSE, inf |-> FALSE, neg |-> FALSE, mant |-> 0, exp |-> 0]

FloatNaN == [ok |-> TRUE, nan |-> TRUE, inf |-> FALSE, neg |-> FALSE, mant |-> 0, exp |-> 0]

FloatInf(neg) == [ok |-> TRUE, nan |-> FALSE, inf |-> TRUE, neg |-> neg, mant |-> 0, exp |-> 0]

FloatFin(neg, mant, exp) ==
  [ok |-> TRUE, nan |-> FALSE, inf |-> FALSE, neg |-> neg, mant |-> mant, exp |-> exp]

\* the decimal part of a float literal: [int][.frac][E[sign]digits]
ParseDecimal(neg, body) ==
  LET es == {i \in 1..Len(body) : body[i] = "E"}
      epos == IF es = {} THEN Len(body) + 1 ELSE SetMin(es)
      mantissa == SubSeq(body, 1, epos - 1)
      exponent == SubSeq(body, epos + 1, Len(body))
      esigned == Len(exponent) > 0 /\ exponent[1] \in {"+", "-"}
      edigits == IF esigned THEN Tail(exponent) ELSE exponent
      eneg == esigned /\ exponent[1] = "-"
      dots == {i \in 1..Len(mantissa) : mantissa[i] = "."}
      dpos == IF dots = {} THEN Len(mantissa) + 1 ELSE SetMin(dots)
      ipart == SubSeq(mantissa, 1, dpos - 1)
      fpart == SubSeq(mantissa, dpos + 1, Len(mantissa))
      ok == /\ Cardinality(dots) <= 1
            /\ (es = {} \/ DigitGroupOK(edigits))
            /\ (Len(ipart) = 0 \/ DigitGroupOK(ipart))
            /\ (Len(fpart) = 0 \/ DigitGroupOK(fpart))
            /\ Len(ipart) + Len(fpart) > 0
      e == IF es = {} THEN 0
           ELSE IF eneg THEN 0 - DigitsToNat(edigits) ELSE DigitsToNat(edigits)
  IN IF ok
     THEN FloatFin(neg, DigitsToNat(ipart \o fpart), e - DigitCount(fpart))
     ELSE FloatError

\* float(s) of a str s
ParseFloat(s) ==
  LET t == Upper(Strip(s))
      signed == Len(t) > 0 /\ t[1] \in {"+", "-"}
      neg == signed /\ t[1] = "-"
      body == IF signed THEN Tail(t) ELSE t
  IN IF body = <<"N","A","N">> THEN FloatNaN
     ELSE IF body \in {<<"I","N","F">>, <<"I","N","F","I","N","I","T","Y">>}
          THEN FloatInf(neg)
          ELSE ParseDecimal(neg, body)

\* f <= n for a parsed float f and a natural number n (every comparison
\* with NaN is false)
FloatLE(f, n) ==
  IF f.nan THEN FALSE
  ELSE IF f.inf THEN f.neg
  ELSE IF f.neg \/ f.mant = 0 THEN TRUE
  ELSE IF f.exp >= 0 THEN f.mant * Pow10(f.exp) <= n
  ELSE f.mant <= n * Pow10(0 - f.exp)

(***************************************************************************)
(* Cell values of a table: Python None, the float NaN that read_csv puts   *)
(* in an empty cell, or a str.                                             *)
(***************************************************************************)
None == [t |-> "None", s |-> <<>>]

NaN == [t |-> "float", s |-> <<"n","a","n">>]

Str(s) == [t |-> "str", s |-> s]

\* the return value of a call that has not returned
Pending == [t |-> "pending", s |-> <<>>]

\* str(v) of a value that is not None
PyStr(v) == v.s

\* pandas notna(): neither None nor NaN
notna(v) == ~(v.t = "None" \/ (v.t = "float" /\ v.s = <<"n","a","n">>))

\* index of the first entry of a dict (a sequence of <<key, value>> in
\* insertion order) whose key is contained in s; 0 when none is
FirstContained(map, s) ==
  LET hits == {i \in 1..Len(map) : Contains(s, map[i][1])}
  IN IF hits = {} THEN 0 ELSE SetMin(hits)

\* index of the first entry of a dict whose key equals s; 0 when none does
FirstEqual(map, s) ==
  LET hits == {i \in 1..Len(map) : map[i][1] = s}
  IN IF hits = {} THEN 0 ELSE SetMin(hits)

(***************************************************************************)
(* standardize_severity                                                    *)
(***************************************************************************)
A_SHOWSTOPPER == <<"A"," ","-"," ","S","H","O","W","S","T","O","P","P","E","R">>

B_MAJOR == <<"B"," ","-"," ","M","A","J","O","R">>

C_MINOR == <<"C"," ","-"," ","M","I","N","O","R">>

S_SAFETY_ONLY == <<"S"," ","-"," ","S","A","F","E","T","Y"," ","O","N","L","Y">>

ai_severity_map ==
  << <<(<<"C","R","I","T","I","C","A","L"," ","(","A",")">>), A_SHOWSTOPPER>>,
     <<(<<"M","A","J","O","R"," ","(","B",")">>), B_MAJOR>>,
     <<(<<"M","I","N","O","R"," ","(","C",")">>), C_MINOR>>,
     <<(<<"S","A","F","E","T","Y">>), S_SAFETY_ONLY>> >>

user_severity_map ==
  << <<A_SHOWSTOPPER, A_SHOWSTOPPER>>,
     <<B_MAJOR, B_MAJOR>>,
     <<C_MINOR, C_MINOR>>,
     <<S_SAFETY_ONLY, S_SAFETY_ONLY>> >>

\* a mutation: the value that matches nothing is returned as written
standardize_severity_raw_fallback(severity) ==
  IF severity = None THEN None
  ELSE LET sev == Upper(PyStr(severity))
           a == FirstContained(ai_severity_map, sev)
           u == FirstContained(user_severity_map, sev)
       IN IF a # 0 THEN Str(ai_severity_map[a][2])
          ELSE IF u # 0 THEN Str(user_severity_map[u][2])
          ELSE Str(PyStr(severity))

\* a mutation: the canonical forms are tested before the rater patterns
standardize_severity_user_first(severity) ==
  IF severity = None THEN None
  ELSE LET sev == Upper(PyStr(severity))
           a == FirstContained(ai_severity_map, sev)
           u == FirstContained(user_severity_map, sev)
       IN IF u # 0 THEN Str(user_severity_map[u][2])
          ELSE IF a # 0 THEN Str(ai_severity_map[a][2])
          ELSE Str(sev)

standardize_severity(severity) ==
  IF severity = None THEN None
  ELSE LET sev == Upper(PyStr(severity))
           a == FirstContained(ai_severity_map, sev)
           u == FirstContained(user_severity_map, sev)
       IN IF a # 0 THEN Str(ai_severity_map[a][2])
          ELSE IF u # 0 THEN Str(user_severity_map[u][2])
          ELSE Str(sev)

(***************************************************************************)
(* standardize_occurrence                                                  *)
(***************************************************************************)
CERTAIN == <<"C","E","R","T","A","I","N">>

VERY_FREQUENT == <<"V","E","R","Y"," ","F","R","E","Q","U","E","N","T">>

FREQUENT == <<"F","R","E","Q","U","E","N","T">>

RARE == <<"R","A","R","E">>

ai_occurrence_map ==
  << <<CERTAIN, CERTAIN>>,
     <<VERY_FREQUENT, VERY_FREQUENT>>,
     <<FREQUENT, FREQUENT>>,
     <<RARE, RARE>> >>

user_to_ai_map ==
  << <<(<<"O","N","C","E">>), RARE>>,
     <<(<<"R","A","R","E","L","Y">>), RARE>>,
     <<(<<"U","N","D","E","T","E","R","M","I","N","E","D">>), RARE>>,
     <<(<<"I","N","T","E","R","M","I","T","T","E","N","T">>), RARE>>,
     <<(<<"L","O","W"," ","O","C","C","U","R","R","E","N","C","E">>), RARE>>,
     <<(<<"S","O","M","E","T","I","M","E","S">>), RARE>>,
     <<(<<"2","5","%">>), FREQUENT>>,
     <<(<<"5","0","%">>), FREQUENT>>,
     <<(<<"7","5","%">>), FREQUENT>>,
     <<(<<"A","L","W","A","Y","S">>), CERTAIN>>,
     <<(<<"F","R","E","Q","U","E","N","T","L","Y">>), FREQUENT>> >>

\* the percentage of lines 82-88: float(occurrence.replace('%', '').strip())
occurrence_percentage(occ) == ParseFloat(Strip(StrReplace(occ, <<"%">>, <<>>)))

\* lines 80-90: the bucket of a value containing '%', or "pass" when float()
\* raises ValueError
percentage_bucket(occ) ==
  LET percentage == occurrence_percentage(occ)
  IN IF ~percentage.ok THEN "pass"
     ELSE IF FloatLE(percentage, 25) THEN "FREQUENT"
     ELSE IF FloatLE(percentage, 75) THEN "VERY FREQUENT"
     ELSE "CERTAIN"

\* a mutation: the numeric fallback runs before the exact tables
standardize_occurrence_buckets_first(occurrence) ==
  IF occurrence = None THEN None
  ELSE LET occ == Upper(PyStr(occurrence))
           a == FirstEqual(ai_occurrence_map, occ)
           u == FirstEqual(user_to_ai_map, occ)
           b == IF Contains(occ, <<"%">>) THEN percentage_bucket(occ) ELSE "pass"
       IN IF b = "FREQUENT" THEN Str(FREQUENT)
          ELSE IF b = "VERY FREQUENT" THEN Str(VERY_FREQUENT)
          ELSE IF b = "CERTAIN" THEN Str(CERTAIN)
          ELSE IF a # 0 THEN Str(ai_occurrence_map[a][2])
          ELSE IF u # 0 THEN Str(user_to_ai_map[u][2])
          ELSE Str(occ)

standardize_occurrence(occurrence) ==
  IF occurrence = None THEN None
  ELSE LET occ == Upper(PyStr(occurrence))
           a == FirstEqual(ai_occurrence_map, occ)
           u == FirstEqual(user_to_ai_map, occ)
           b == IF Contains(occ, <<"%">>) THEN percentage_bucket(occ) ELSE "pass"
       IN IF a # 0 THEN Str(ai_occurrence_map[a][2])
          ELSE IF u # 0 THEN Str(user_to_ai_map[u][2])
          ELSE IF b = "FREQUENT" THEN Str(FREQUENT)
          ELSE IF b = "VERY FREQUENT" THEN Str(VERY_FREQUENT)
          ELSE IF b = "CERTAIN" THEN Str(CERTAIN)
          ELSE Str(occ)

(***************************************************************************)
(* standardize_priority                                                    *)
(***************************************************************************)
BLOCKER == <<"B","L","O","C","K","E","R">>

CRITICAL == <<"C","R","I","T","I","C","A","L">>

MAJOR == <<"M","A","J","O","R">>

MINOR == <<"M","I","N","O","R">>

ai_priority_map ==
  << <<BLOCKER, BLOCKER>>,
     <<(<<"U","R","G","E","N","T">>), CRITICAL>>,
     <<(<<"H","I","G","H">>), MAJOR>>,
     <<(<<"M","E","D","I","U","M">>), MAJOR>>,
     <<(<<"L","O","W">>), MINOR>> >>

user_priority_map ==
  << <<BLOCKER, BLOCKER>>,
     <<CRITICAL, CRITICAL>>,
     <<MAJOR, MAJOR>>,
     <<MINOR, MINOR>> >>

\* a mutation: the value is matched as written, not upper-cased
standardize_priority_no_upper(priority) ==
  IF priority = None THEN None
  ELSE LET pri == PyStr(priority)
           a == FirstEqual(ai_priority_map, pri)
           u == FirstEqual(user_priority_map, pri)
       IN IF a # 0 THEN Str(ai_priority_map[a][2])
          ELSE IF u # 0 THEN Str(user_priority_map[u][2])
          ELSE Str(pri)

\* a mutation: 'MEDIUM' is mapped to the rater's label 'HIGH', not to a
\* canonical label
standardize_priority_medium_to_high(priority) ==
  IF priority = None THEN None
  ELSE LET pri == Upper(PyStr(priority))
           a == FirstEqual(ai_priority_map, pri)
           u == FirstEqual(user_priority_map, pri)
       IN IF a = 4 THEN Str(ai_priority_map[3][1])
          ELSE IF a # 0 THEN Str(ai_priority_map[a][2])
          ELSE IF u # 0 THEN Str(user_priority_map[u][2])
          ELSE Str(pri)

standardize_priority(priority) ==
  IF priority = None THEN None
  ELSE LET pri == Upper(PyStr(priority))
           a == FirstEqual(ai_priority_map, pri)
           u == FirstEqual(user_priority_map, pri)
       IN IF a # 0 THEN Str(ai_priority_map[a][2])
          ELSE IF u # 0 THEN Str(user_priority_map[u][2])
          ELSE Str(pri)

(***************************************************************************)
(* calculate_match_rates                                                   *)
(***************************************************************************)
NoTable == [columns |-> {}, rows |-> <<>>]

NoFrame == [missing_columns |-> <<>>]

NotReturned == [t |-> "pending"]

required_columns ==
  <<"user_severity", "ai_severity",
    "user_occurrence", "ai_occurrence",
    "user_priority", "ai_priority">>

RequiredSet == {required_columns[i] : i \in 1..Len(required_columns)}

\* line 139
missing_columns(d) ==
  SelectSeq(required_columns, LAMBDA col : col \notin d.columns)

\* lines 145-153: the six rating columns and their standardized columns
standardized_row(r) ==
  [c \in RequiredSet |-> r[c]]
  @@ ("user_severity_std" :> standardize_severity(r["user_severity"]))
  @@ ("ai_severity_std" :> standardize_severity(r["ai_severity"]))
  @@ ("user_occurrence_std" :> standardize_occurrence(r["user_occurrence"]))
  @@ ("ai_occurrence_std" :> standardize_occurrence(r["ai_occurrence"]))
  @@ ("user_priority_std" :> standardize_priority(r["user_priority"]))
  @@ ("ai_priority_std" :> standardize_priority(r["ai_priority"]))

\* Series == Series on object columns, one row: a comparison with a missing
\* value on either side is False
series_eq(a, b) == notna(a) /\ notna(b) /\ a = b

\* lines 156-158
match_flags_row(r) ==
  r
  @@ ("severity_match" :> series_eq(r["user_severity_std"], r["ai_severity_std"]))
  @@ ("occurrence_match" :> series_eq(r["user_occurrence_std"], r["ai_occurrence_std"]))
  @@ ("priority_match" :> series_eq(r["user_priority_std"], r["ai_priority_std"]))

\* a mutation: the priority flag is left out of the composite
all_match_row_without_priority(r) ==
  r @@ ("all_match" :> (r["severity_match"] /\ r["occurrence_match"]))

\* line 171
all_match_row(r) ==
  r @@ ("all_match" :>
          (r["severity_match"] /\ r["occurrence_match"] /\ r["priority_match"]))

\* a mutation: every row is a valid comparison
valid_count_all_rows(rows, cols) == Len(rows)

\* df[cols].notna().all(axis=1).sum()
valid_count(rows, cols) ==
  Cardinality({i \in 1..Len(rows) : \A c \in cols : notna(rows[i][c])})

\* Series.sum() of a column of booleans
true_count(rows, col) == Cardinality({i \in 1..Len(rows) : rows[i][col]})

\* lines 166-168, 175: the rate as the fraction num / den of a percentage
match_rate(matches, valid) ==
  IF valid > 0 THEN [num |-> matches * 100, den |-> valid]
               ELSE [num |-> 0, den |-> 1]

\* round(rate, 2), in hundredths of a percent; a tie goes to the even
\* neighbour
round2(rate) ==
  LET q == (rate.num * 100) \div rate.den
      r == (rate.num * 100) % rate.den
  IN IF 2 * r < rate.den THEN q
     ELSE IF 2 * r > rate.den THEN q + 1
     ELSE IF q % 2 = 0 THEN q ELSE q + 1

\* lines 148-158, 171: the table with its standardized and flag columns
flagged_rows(d) ==
  [i \in 1..Len(d.rows) |->
     all_match_row(match_flags_row(standardized_row(d.rows[i])))]

\* lines 161-163, 172-174 of the table with its new columns
valid_counts(flagged) ==
  [severity |-> valid_count(flagged, {"user_severity_std", "ai_severity_std"}),
   occurrence |-> valid_count(flagged, {"user_occurrence_std", "ai_occurrence_std"}),
   priority |-> valid_count(flagged, {"user_priority_std", "ai_priority_std"}),
   all |-> valid_count(flagged,
             {"user_severity_std", "ai_severity_std",
              "user_occurrence_std", "ai_occurrence_std",
              "user_priority_std", "ai_priority_std"})]

\* the local variables at line 175, from the table and its valid counts
locals_of(flagged, valid) ==
  [metrics_df |-> flagged,
   valid_severity |-> valid.severity,
   valid_occurrence |-> valid.occurrence,
   valid_priority |-> valid.priority,
   valid_all |-> valid.all,
   severity_match_rate |->
     match_rate(true_count(flagged, "severity_match"), valid.severity),
   occurrence_match_rate |->
     match_rate(true_count(flagged, "occurrence_match"), valid.occurrence),
   priority_match_rate |->
     match_rate(true_count(flagged, "priority_match"), valid.priority),
   overall_match_rate |->
     match_rate(true_count(flagged, "all_match"), valid.all)]

\* the local variables of calculate_match_rates at line 175
match_rate_locals(d) == locals_of(flagged_rows(d), valid_counts(flagged_rows(d)))

\* lines 178-187
results_of(d, f) ==
  ("Severity Match Rate (%)" :> round2(f.severity_match_rate))
  @@ ("Occurrence Match Rate (%)" :> round2(f.occurrence_match_rate))
  @@ ("Priority Match Rate (%)" :> round2(f.priority_match_rate))
  @@ ("Overall Match Rate (%)" :> round2(f.overall_match_rate))
  @@ ("Total Issues Analyzed" :> Len(d.rows))
  @@ ("Valid Severity Comparisons" :> f.valid_severity)
  @@ ("Valid Occurrence Comparisons" :> f.valid_occurrence)
  @@ ("Valid Priority Comparisons" :> f.valid_priority)

\* lines 177-189: the tuple (results, metrics_df) returned from the locals f
returned_tuple(d, f) ==
  [t |-> "tuple", results |-> results_of(d, f), metrics_df |-> f.metrics_df]

\* a mutation: with a column missing, the rates of an empty table are
\* returned instead of None
calculate_match_rates_partial_result(d) ==
  IF missing_columns(d) # <<>>
  THEN returned_tuple(NoTable, match_rate_locals(NoTable))
  ELSE returned_tuple(d, match_rate_locals(d))

\* the return value: None (line 142) or the tuple (results, metrics_df)
calculate_match_rates(d) ==
  IF missing_columns(d) # <<>>
  THEN [t |-> "None"]
  ELSE returned_tuple(d, match_rate_locals(d))

\* line 141
MissingColumnsWarning(d) ==
  [msg |-> "Warning: Missing columns in CSV", arg |-> missing_columns(d)]

(***************************************************************************)
(* Input tables.  A row pairs, per attribute, a human and an automated     *)
(* cell; an empty cell is NaN when the table comes from read_csv and None  *)
(* when the caller built it.                                               *)
(***************************************************************************)
SeverityPairs ==
  { <<Str(<<"A"," ","-"," ","S","h","o","w","s","t","o","p","p","e","r">>),
      Str(<<"C","r","i","t","i","c","a","l"," ","(","A",")">>)>>,
    <<Str(<<"B"," ","-"," ","M","a","j","o","r">>),
      Str(<<"M","i","n","o","r"," ","(","C",")">>)>>,
    <<Str(<<"C"," ","-"," ","M","i","n","o","r">>), None>>,
    <<Str(<<"C"," ","-"," ","M","i","n","o","r">>), NaN>> }

OccurrencePairs ==
  { <<Str(<<"A","l","w","a","y","s">>), Str(<<"C","e","r","t","a","i","n">>)>>,
    <<Str(<<"5","0","%">>),
      Str(<<"V","e","r","y"," ","F","r","e","q","u","e","n","t">>)>>,
    <<NaN, NaN>> }

PriorityPairs ==
  { <<Str(<<"C","r","i","t","i","c","a","l">>), Str(<<"U","r","g","e","n","t">>)>>,
    <<Str(<<"M","a","j","o","r">>), Str(<<"L","o","w">>)>>,
    <<None, None>> }

Rows ==
  { ("user_severity" :> sp[1]) @@ ("ai_severity" :> sp[2])
    @@ ("user_occurrence" :> op[1]) @@ ("ai_occurrence" :> op[2])
    @@ ("user_priority" :> pp[1]) @@ ("ai_priority" :> pp[2]) :
      sp \in SeverityPairs, op \in OccurrencePairs, pp \in PriorityPairs }

\* the tables of at most n rows that hold all six columns
FullTables(n) ==
  {[columns |-> RequiredSet, rows |-> rs] :
     rs \in UNION {[1..k -> Rows] : k \in 0..n}}

\* the rows put in a table that lacks a column
SampleRows == {r \in Rows : r["user_occurrence"] = NaN /\ r["user_priority"] = None}

\* tables of at most n rows with one or two of the required columns absent
PartialTables(n) ==
  {[columns |-> cs, rows |-> [i \in 1..Len(rs) |-> [c \in cs |-> rs[i][c]]]] :
     rs \in UNION {[1..k -> SampleRows] : k \in 0..n},
     cs \in {x \in SUBSET RequiredSet : Cardinality(x) \in {4, 5}}}

(***************************************************************************)
(* The variables of the parts that a specification leaves idle.            *)
(***************************************************************************)
NoFiles == [q \in {} |-> ""]

\* a file that read_csv cannot read
Unreadable == [columns |-> {}, rows |-> <<>>, readable |-> FALSE]

Readable(t) == [columns |-> t.columns, rows |-> t.rows, readable |-> TRUE]

NoArgs == [csv_file |-> <<>>, detailed |-> FALSE, output |-> FALSE, output_file |-> None]

NormIdle == kind = "severity" /\ raw = None /\ canonical = Pending

MainIdle == args = NoArgs /\ csv = Unreadable /\ output_file = None

NoVizArgs == [files |-> <<>>, labels |-> <<>>, manual |-> FALSE, output |-> None]

VizIdle ==
  /\ vargs = NoVizArgs /\ vi = 0 /\ data_list = <<>> /\ origin = <<>>
  /\ labels = <<>>
  /\ chart = <<>> /\ table = {}

(***************************************************************************)
(* calculate_match_rates as a call: Init draws the table.                  *)
(***************************************************************************)
InitAgg ==
  /\ df \in FullTables(MaxRows) \cup PartialTables(MaxBadRows)
  /\ frame = NoFrame /\ ret = NotReturned
  /\ stdout = <<>>
  /\ NormIdle
  /\ MainIdle /\ pc = "idle" /\ files = NoFiles
  /\ VizIdle

\* the locals when calculate_match_rates returns
frame_of(d) ==
  IF missing_columns(d) # <<>>
  THEN [missing_columns |-> missing_columns(d)]
  ELSE match_rate_locals(d)

\* what calculate_match_rates prints
printed_by_calculate(d) ==
  IF missing_columns(d) # <<>> THEN <<MissingColumnsWarning(d)>> ELSE <<>>

CalculateMatchRates ==
  /\ ret = NotReturned
  /\ ret' = calculate_match_rates(df)
  /\ frame' = frame_of(df)
  /\ stdout' = stdout \o printed_by_calculate(df)
  /\ UNCHANGED <<df, normVars, mainVars, pc, files, vizVars>>

NextAgg == CalculateMatchRates

SpecAgg == InitAgg /\ [][NextAgg]_vars

(***************************************************************************)
(* main of match-rates-script.py                                           *)
(***************************************************************************)
\* os.path.basename
PathBasename(path) ==
  LET slashes == {i \in 1..Len(path) : path[i] = "/"}
  IN IF slashes = {} THEN path ELSE SubSeq(path, SetMax(slashes) + 1, Len(path))

\* os.path.splitext(path)[0]: the extension starts at the last dot of the
\* last component, leading dots aside
SplitextRoot(path) ==
  LET start == Len(path) - Len(PathBasename(path))
      dots == {i \in (start + 1)..Len(path) :
                 /\ path[i] = "."
                 /\ \E j \in (start + 1)..(i - 1) : path[j] # "."}
  IN IF dots = {} THEN path ELSE SubSeq(path, 1, SetMax(dots) - 1)

\* datetime.now().strftime("%Y%m%d_%H%M%S") of the run
Timestamp == <<"2","0","2","6","0","1","0","1","_","1","2","0","0","0","0">>

\* lines 262-268
auto_output_file(csv_file) ==
  SplitextRoot(PathBasename(csv_file))
  \o <<"_","m","a","t","c","h","_","r","a","t","e","s","_">>
  \o Timestamp \o <<".","c","s","v">>

\* lines 255-271: the output file name, None when no output is requested
output_file_of(a) ==
  IF a.output THEN Str(auto_output_file(a.csv_file))
  ELSE IF a.output_file # None /\ a.output_file.s # <<>> THEN a.output_file
  ELSE None

\* line 280
txt_output_file(out) == StrReplace(out, <<".","c","s","v">>, <<".","t","x","t">>)

\* line 289
detailed_output(out) ==
  StrReplace(out, <<".","c","s","v">>, <<"_","d","e","t","a","i","l","e","d",".","c","s","v">>)

\* line 294
detailed_txt_output(out) ==
  StrReplace(txt_output_file(out), <<".","t","x","t">>,
             <<"_","d","e","t","a","i","l","e","d",".","t","x","t">>)

\* a file is written: whatever the path held is replaced
Written(fs, path, content) ==
  [q \in DOMAIN fs \cup {path} |-> IF q = path THEN content ELSE fs[q]]

\* line 332
ErrorProcessing(e) == [msg |-> "Error processing CSV file", arg |-> e]

ArgSets ==
  [csv_file : {<<"i","n",".","c","s","v">>},
   detailed : BOOLEAN,
   output : BOOLEAN,
   output_file : {None,
                  Str(<<"r",".","c","s","v">>),
                  Str(<<"r",".","o","u","t">>),
                  Str(<<"r",".","t","x","t">>)}]

InitMain ==
  /\ args \in ArgSets
  /\ csv \in {Unreadable}
       \cup {Readable(t) : t \in PartialTables(MaxBadRows)}
       \cup {Readable([columns |-> RequiredSet, rows |-> rs]) :
               rs \in UNION {[1..k -> SampleRows] : k \in 0..MaxMainRows}}
  /\ pc = "start"
  /\ output_file = None /\ files = NoFiles
  /\ df = NoTable /\ frame = NoFrame /\ ret = NotReturned
  /\ stdout = <<>>
  /\ NormIdle
  /\ VizIdle

\* lines 238-239, and 331-332 when read_csv raises
MainReadCsv ==
  /\ pc = "start"
  /\ IF csv.readable
     THEN /\ df' = [columns |-> csv.columns, rows |-> csv.rows]
          /\ stdout' = Append(stdout, [msg |-> "Successfully loaded", arg |-> Len(csv.rows)])
          /\ pc' = "calculate"
     ELSE /\ df' = df
          /\ stdout' = Append(stdout, ErrorProcessing("read_csv"))
          /\ pc' = "done"
  /\ UNCHANGED <<frame, ret, args, csv, output_file, files, normVars, vizVars>>

\* lines 242-273 once calculate_match_rates has returned r: the unpacking
\* of r (a TypeError when it is None, caught at line 331), the printed
\* results and the choice of the output file out
MainUnpack(r, out) ==
  /\ ret' = r
  /\ IF r.t = "None"
     THEN /\ stdout' = stdout \o printed_by_calculate(df)
                       \o <<ErrorProcessing("TypeError")>>
          /\ output_file' = output_file
          /\ pc' = "done"
     ELSE /\ stdout' =
               stdout \o printed_by_calculate(df)
               \o <<[msg |-> "=== MATCH RATE RESULTS ===", arg |-> r.results]>>
               \o (IF args.detailed
                   THEN <<[msg |-> "=== DETAILED BREAKDOWN ===", arg |-> r.metrics_df]>>
                   ELSE <<>>)
          /\ output_file' = out
          /\ pc' = IF out # None THEN "write_results" ELSE "done"

\* lines 242-273
MainCalculate ==
  /\ pc = "calculate"
  /\ frame' = frame_of(df)
  /\ MainUnpack(calculate_match_rates(df), output_file_of(args))
  /\ UNCHANGED <<df, args, csv, files, normVars, vizVars>>

\* a write that raises is caught at line 331
WriteFails ==
  /\ stdout' = Append(stdout, ErrorProcessing("OSError"))
  /\ pc' = "done"
  /\ files' = files

\* lines 275-277
MainWriteResults ==
  /\ pc = "write_results"
  /\ \/ /\ files' = Written(files, output_file.s, "results table")
        /\ stdout' = Append(stdout, [msg |-> "Results saved to", arg |-> output_file.s])
        /\ pc' = "write_txt"
     \/ WriteFails
  /\ UNCHANGED <<aggVars, args, csv, output_file, normVars, vizVars>>

\* lines 280-285
MainWriteText ==
  /\ pc = "write_txt"
  /\ \/ /\ files' = Written(files, txt_output_file(output_file.s), "text report")
        /\ stdout' = Append(stdout, [msg |-> "Text results saved to",
                                     arg |-> txt_output_file(output_file.s)])
        /\ pc' = IF args.detailed THEN "write_detailed" ELSE "done"
     \/ WriteFails
  /\ UNCHANGED <<aggVars, args, csv, output_file, normVars, vizVars>>

\* lines 288-291
MainWriteDetailed ==
  /\ pc = "write_detailed"
  /\ \/ /\ files' = Written(files, detailed_output(output_file.s), "detailed table")
        /\ stdout' = Append(stdout, [msg |-> "Detailed metrics saved to",
                                     arg |-> detailed_output(output_file.s)])
        /\ pc' = "write_detailed_txt"
     \/ WriteFails
  /\ UNCHANGED <<aggVars, args, csv, output_file, normVars, vizVars>>

\* lines 294-327
MainWriteDetailedText ==
  /\ pc = "write_detailed_txt"
  /\ \/ /\ files' = Written(files, detailed_txt_output(output_file.s),
                            "detailed text report")
        /\ stdout' = Append(stdout, [msg |-> "Detailed text breakdown saved to",
                                     arg |-> detailed_txt_output(output_file.s)])
        /\ pc' = "done"
     \/ WriteFails
  /\ UNCHANGED <<aggVars, args, csv, output_file, normVars, vizVars>>

NextMain ==
  \/ MainReadCsv
  \/ MainCalculate
  \/ MainWriteResults
  \/ MainWriteText
  \/ MainWriteDetailed
  \/ MainWriteDetailedText

SpecMain == InitMain /\ [][NextMain]_vars

(***************************************************************************)
(* Raw values handed to the normalizers.                                   *)
(***************************************************************************)
RECURSIVE NatToStr(_)
NatToStr(n) ==
  IF n < 10 THEN <<Digits[n + 1]>>
  ELSE NatToStr(n \div 10) \o <<Digits[(n % 10) + 1]>>

PercentStr(n) == NatToStr(n) \o <<"%">>

RECURSIVE Spaces(_)
Spaces(n) == IF n = 0 THEN <<>> ELSE <<" ">> \o Spaces(n - 1)

\* a text as written, lower-cased and upper-cased, with up to MaxPad blanks
\* on each side
Variants(texts) ==
  {Spaces(l) \o c \o Spaces(r) :
     l \in 0..MaxPad, r \in 0..MaxPad,
     c \in UNION {{x, Lower(x), Upper(x)} : x \in texts}}

SeverityFragments ==
  { <<"C","r","i","t","i","c","a","l"," ","(","A",")">>,
    <<"M","a","j","o","r"," ","(","B",")">>,
    <<"M","i","n","o","r"," ","(","C",")">>,
    <<"S","a","f","e","t","y">>,
    <<"A"," ","-"," ","S","h","o","w","s","t","o","p","p","e","r">>,
    <<"B"," ","-"," ","M","a","j","o","r">>,
    <<"C"," ","-"," ","M","i","n","o","r">>,
    <<"S"," ","-"," ","S","a","f","e","t","y"," ","O","n","l","y">>,
    <<"U","R","G","E","N","T"," ","(","A",")","x">>,
    <<"w","h","a","t","e","v","e","r","-","u","n","m","a","p","p","e","d">> }

\* up to n fragments joined by single blanks
RECURSIVE Joined(_)
Joined(n) ==
  IF n <= 1 THEN SeverityFragments
  ELSE Joined(n - 1)
       \cup {x \o <<" ">> \o f : x \in Joined(n - 1), f \in SeverityFragments}

SeverityTexts == Variants(Joined(MaxParts))

OccurrenceTexts ==
  Variants(
    { <<"C","e","r","t","a","i","n">>,
      <<"V","e","r","y"," ","F","r","e","q","u","e","n","t">>,
      <<"F","r","e","q","u","e","n","t">>,
      <<"R","a","r","e">>,
      <<"O","n","c","e">>,
      <<"R","a","r","e","l","y">>,
      <<"U","n","d","e","t","e","r","m","i","n","e","d">>,
      <<"I","n","t","e","r","m","i","t","t","e","n","t">>,
      <<"L","o","w"," ","O","c","c","u","r","r","e","n","c","e">>,
      <<"S","o","m","e","t","i","m","e","s">>,
      <<"A","l","w","a","y","s">>,
      <<"F","r","e","q","u","e","n","t","l","y">>,
      <<"o","f","t","e","n">>,
      <<"1","2",".","5","%">>,
      <<"a","b","c","%">>,
      <<"%">>,
      <<"1","e","2","%">>,
      <<"n","a","n","%">>,
      <<"-","5","%">>,
      <<"7"," ","5","%">>,
      <<"%","5","0">>,
      <<"5","%","0">>,
      <<"2","_","5","%">>,
      <<"i","n","f","%">>,
      <<"2","5",".","0","%">>,
      <<"7",".","5","e","1","%">>,
      <<"7","5"," ","%">> }
    \cup {PercentStr(n) : n \in 0..MaxPercent})

PriorityTexts ==
  Variants(
    { <<"B","l","o","c","k","e","r">>,
      <<"U","r","g","e","n","t">>,
      <<"C","r","i","t","i","c","a","l">>,
      <<"H","i","g","h">>,
      <<"M","e","d","i","u","m">>,
      <<"L","o","w">>,
      <<"M","a","j","o","r">>,
      <<"M","i","n","o","r">>,
      <<"N","o","r","m","a","l">> })

Kinds == {"severity", "occurrence", "priority"}

RawValues(k) ==
  {None, NaN}
  \cup {Str(x) : x \in (CASE k = "severity" -> SeverityTexts
                          [] k = "occurrence" -> OccurrenceTexts
                          [] k = "priority" -> PriorityTexts)}

(***************************************************************************)
(* The normalizers as calls: Init draws the argument, an action applies    *)
(* the function.                                                           *)
(***************************************************************************)
InitNorm ==
  /\ kind \in Kinds
  /\ raw \in RawValues(kind)
  /\ canonical = Pending
  /\ df = NoTable /\ frame = NoFrame /\ ret = NotReturned
  /\ stdout = <<>>
  /\ MainIdle /\ pc = "idle" /\ files = NoFiles
  /\ VizIdle

StandardizeSeverity ==
  /\ kind = "severity" /\ canonical = Pending
  /\ canonical' = standardize_severity(raw)
  /\ UNCHANGED <<kind, raw, aggVars, stdout, mainVars, pc, files, vizVars>>

StandardizeOccurrence ==
  /\ kind = "occurrence" /\ canonical = Pending
  /\ canonical' = standardize_occurrence(raw)
  /\ UNCHANGED <<kind, raw, aggVars, stdout, mainVars, pc, files, vizVars>>

StandardizePriority ==
  /\ kind = "priority" /\ canonical = Pending
  /\ canonical' = standardize_priority(raw)
  /\ UNCHANGED <<kind, raw, aggVars, stdout, mainVars, pc, files, vizVars>>

NextNorm == StandardizeSeverity \/ StandardizeOccurrence \/ StandardizePriority

SpecNorm == InitNorm /\ [][NextNorm]_vars

(***************************************************************************)
(* visualize_comparisons.py.  A match rate is a float, a str that a        *)
(* tabular file held in place of a number, or the int 0 that               *)
(* create_comparison_visualization substitutes for a missing key.          *)
(***************************************************************************)
RateFloat(f) == [t |-> "float", s |-> <<>>, f |-> f]

RateStr(s) == [t |-> "str", s |-> s, f |-> FloatError]

RateInt0 == [t |-> "int", s |-> <<>>, f |-> FloatFin(FALSE, 0, 0)]

\* float(v) of a rate value
to_float(v) == IF v.t = "str" THEN ParseFloat(v.s) ELSE v.f

\* d[k] = v of a dict d
dict_set(d, k, v) == [q \in DOMAIN d \cup {k} |-> IF q = k THEN v ELSE d[q]]

\* d.get(k, d.get(alt, 0))
dict_get(d, k, alt) ==
  IF k \in DOMAIN d THEN d[k] ELSE IF alt \in DOMAIN d THEN d[alt] ELSE RateInt0

\* the result of a parser: the dict it returns and whether it printed an
\* error on the way
Parsed(rates, error) == [rates |-> rates, error |-> error]

\* the key a line of a text report is stored under, "" where the line
\* matches none of the three patterns
txt_key(line) ==
  IF Contains(line, <<"S","e","v","e","r","i","t","y"," ","M","a","t","c","h"," ","R","a","t","e">>)
  THEN "Severity Match Rate (%)"
  ELSE IF Contains(line, <<"O","c","c","u","r","r","e","n","c","e"," ","M","a","t","c","h"," ","R","a","t","e">>)
  THEN "Occurrence Match Rate (%)"
  ELSE IF Contains(line, <<"P","r","i","o","r","i","t","y"," ","M","a","t","c","h"," ","R","a","t","e">>)
  THEN "Priority Match Rate (%)"
  ELSE ""

\* the loop of parse_txt_file from line i on: the first float() that raises
\* leaves the loop, and the dict built so far is returned
RECURSIVE parse_lines(_, _, _)
parse_lines(lines, i, match_rates) ==
  IF i > Len(lines) THEN Parsed(match_rates, FALSE)
  ELSE IF txt_key(lines[i]) = "" \/ Len(StrSplit(lines[i], ":")) <= 1
  THEN parse_lines(lines, i + 1, match_rates)
  ELSE IF ~ParseFloat(Strip(StrSplit(lines[i], ":")[2])).ok
  THEN Parsed(match_rates, TRUE)
  ELSE parse_lines(lines, i + 1,
                   dict_set(match_rates, txt_key(lines[i]),
                            RateFloat(ParseFloat(Strip(StrSplit(lines[i], ":")[2])))))

parse_txt_file(file) ==
  IF ~file.readable THEN Parsed(<<>>, TRUE)
  ELSE parse_lines(StrSplit(file.text, "\n"), 1, <<>>)

\* the key a column of a tabular file is stored under, "" where its name
\* matches none of the three patterns
csv_key(col) ==
  IF ~(Contains(Lower(col), <<"m","a","t","c","h">>) /\ Contains(Lower(col), <<"r","a","t","e">>)) THEN ""
  ELSE IF Contains(Lower(col), <<"s","e","v","e","r","i","t","y">>) THEN "Severity Match Rate (%)"
  ELSE IF Contains(Lower(col), <<"o","c","c","u","r","r","e","n","c","e">>) THEN "Occurrence Match Rate (%)"
  ELSE IF Contains(Lower(col), <<"p","r","i","o","r","i","t","y">>) THEN "Priority Match Rate (%)"
  ELSE ""

\* the loop of parse_csv_file from column i on: iloc[0] of a table without
\* rows raises IndexError, and the function returns {}
RECURSIVE parse_columns(_, _, _, _)
parse_columns(columns, nrows, i, match_rates) ==
  IF i > Len(columns) THEN Parsed(match_rates, FALSE)
  ELSE IF csv_key(columns[i].name) = ""
  THEN parse_columns(columns, nrows, i + 1, match_rates)
  ELSE IF nrows = 0 THEN Parsed(<<>>, TRUE)
  ELSE parse_columns(columns, nrows, i + 1,
                     dict_set(match_rates, csv_key(columns[i].name), columns[i].first))

parse_csv_file(file) ==
  IF ~file.readable THEN Parsed(<<>>, TRUE)
  ELSE parse_columns(file.columns, file.nrows, 1, <<>>)

\* line 28
label_of(lb, i) ==
  IF i <= Len(lb) THEN lb[i]
  ELSE <<"M","e","a","s","u","r","e","m","e","n","t"," ">> \o NatToStr(i)

\* lines 26-43 for the i-th measurement: its label, its three values after
\* float(), and whether all three converted
measurement(data, label, i) ==
  [i |-> i, label |-> label,
   Severity |-> to_float(dict_get(data, "Severity Match Rate (%)", "severity_match_rate")),
   Occurrence |-> to_float(dict_get(data, "Occurrence Match Rate (%)", "occurrence_match_rate")),
   Priority |-> to_float(dict_get(data, "Priority Match Rate (%)", "priority_match_rate"))]

converted(m) == m.Severity.ok /\ m.Occurrence.ok /\ m.Priority.ok

measurements(dl, lb) ==
  [i \in 1..Len(dl) |-> measurement(dl[i], label_of(lb, i), i)]

\* a row of df_data; i is the position of its measurement in data_list
bar(m, metric) ==
  [Measurement |-> m.label, Metric |-> metric, rate |-> m[metric], i |-> m.i]

\* lines 46-59
RECURSIVE df_data_of(_)
df_data_of(ms) ==
  IF ms = <<>> THEN <<>>
  ELSE (IF converted(Head(ms))
        THEN <<bar(Head(ms), "Severity"), bar(Head(ms), "Occurrence"),
               bar(Head(ms), "Priority")>>
        ELSE <<>>)
       \o df_data_of(Tail(ms))

\* lines 41-43
RECURSIVE warnings_of(_)
warnings_of(ms) ==
  IF ms = <<>> THEN <<>>
  ELSE (IF converted(Head(ms)) THEN <<>>
        ELSE <<[msg |-> "Warning: Could not convert values to float for",
                arg |-> Head(ms).label]>>)
       \o warnings_of(Tail(ms))

\* line 125: the rows of the pivot table, one per measurement label (the
\* AVERAGE row and the rounding are left out)
pivot_df(ms) ==
  {[Measurement |-> ms[k].label, Severity |-> ms[k].Severity,
    Occurrence |-> ms[k].Occurrence, Priority |-> ms[k].Priority, i |-> ms[k].i] :
     k \in {j \in 1..Len(ms) : converted(ms[j])}}

\* pivot raises ValueError where two charted measurements share a label
pivot_fails(ms) ==
  \E j, k \in 1..Len(ms) :
    j < k /\ converted(ms[j]) /\ converted(ms[k]) /\ ms[j].label = ms[k].label

\* line 143
csv_output(out) ==
  StrReplace(StrReplace(out, <<".","p","n","g">>, <<".","c","s","v">>), <<".","j","p","g">>, <<".","c","s","v">>)

\* line 149
excel_output(out) ==
  StrReplace(StrReplace(out, <<".","p","n","g">>, <<".","x","l","s","x">>), <<".","j","p","g">>, <<".","x","l","s","x">>)

\* lines 263-265
viz_output(a) ==
  IF a.output = None
  THEN <<"m","a","t","c","h","_","r","a","t","e","s","_","c","o","m","p","a","r","i","s","o","n","_">> \o Timestamp \o <<".","p","n","g">>
  ELSE a.output.s

(***************************************************************************)
(* Input files of the visualization: text reports as match-rates-script    *)
(* writes them, with a rate either a number or a text that is none, and    *)
(* results tables with their first row.                                    *)
(***************************************************************************)
Metrics == <<"Severity", "Occurrence", "Priority">>

RateLabel(metric) ==
  CASE metric = "Severity" -> <<"S","e","v","e","r","i","t","y"," ","M","a","t","c","h"," ","R","a","t","e"," ","(","%",")">>
    [] metric = "Occurrence" -> <<"O","c","c","u","r","r","e","n","c","e"," ","M","a","t","c","h"," ","R","a","t","e"," ","(","%",")">>
    [] metric = "Priority" -> <<"P","r","i","o","r","i","t","y"," ","M","a","t","c","h"," ","R","a","t","e"," ","(","%",")">>

\* what a file holds per metric: a number, a text that is no number, or
\* nothing
Holdings ==
  {[Severity |-> "good", Occurrence |-> "good", Priority |-> "good"],
   [Severity |-> "bad", Occurrence |-> "good", Priority |-> "good"],
   [Severity |-> "good", Occurrence |-> "bad", Priority |-> "good"],
   [Severity |-> "good", Occurrence |-> "good", Priority |-> "bad"],
   [Severity |-> "good", Occurrence |-> "absent", Priority |-> "good"]}

RECURSIVE JoinLines(_)
JoinLines(lines) ==
  IF lines = <<>> THEN <<>> ELSE Head(lines) \o <<"\n">> \o JoinLines(Tail(lines))

\* lines 281-284 of match-rates-script.py
TxtLine(h, metric) ==
  IF h[metric] = "absent" THEN <<>>
  ELSE <<RateLabel(metric) \o <<":"," ">>
         \o (IF h[metric] = "good" THEN <<"8","0",".","0">> ELSE <<"n","/","a">>)>>

TxtText(h) ==
  JoinLines(<<<<"=","=","="," ","M","A","T","C","H"," ","R","A","T","E"," ","R","E","S","U","L","T","S"," ","=","=","=">>, <<>>>>
            \o TxtLine(h, "Severity") \o TxtLine(h, "Occurrence")
            \o TxtLine(h, "Priority")
            \o <<<<"O","v","e","r","a","l","l"," ","M","a","t","c","h"," ","R","a","t","e"," ","(","%",")",":"," ","8","0",".","0">>,
                 <<"T","o","t","a","l"," ","I","s","s","u","e","s"," ","A","n","a","l","y","z","e","d",":"," ","1","2">>,
                 <<"V","a","l","i","d"," ","S","e","v","e","r","i","t","y"," ","C","o","m","p","a","r","i","s","o","n","s",":"," ","1","2">>>>)

CsvColumn(h, metric) ==
  IF h[metric] = "absent" THEN <<>>
  ELSE <<[name |-> RateLabel(metric),
          first |-> IF h[metric] = "good"
                    THEN RateFloat(FloatFin(FALSE, 800, -1))
                    ELSE RateStr(<<"h","i","g","h">>)]>>

CsvColumns(h) ==
  CsvColumn(h, "Severity") \o CsvColumn(h, "Occurrence") \o CsvColumn(h, "Priority")
  \o <<[name |-> <<"O","v","e","r","a","l","l"," ","M","a","t","c","h"," ","R","a","t","e"," ","(","%",")">>, first |-> RateFloat(FloatFin(FALSE, 800, -1))],
       [name |-> <<"T","o","t","a","l"," ","I","s","s","u","e","s"," ","A","n","a","l","y","z","e","d">>, first |-> RateFloat(FloatFin(FALSE, 12, 0))]>>

File(ext, readable, text, columns, nrows) ==
  [ext |-> ext, readable |-> readable, text |-> text, columns |-> columns,
   nrows |-> nrows]

AllGood == [Severity |-> "good", Occurrence |-> "good", Priority |-> "good"]

FileContents ==
  {File(<<".","t","x","t">>, TRUE, TxtText(h), <<>>, 0) : h \in Holdings}
  \cup {File(<<".","t","x","t">>, FALSE, <<>>, <<>>, 0)}
  \cup {File(<<".","c","s","v">>, TRUE, <<>>, CsvColumns(h), 1) :
          h \in {AllGood, [AllGood EXCEPT !.Occurrence = "bad"]}}
  \cup {File(<<".","c","s","v">>, TRUE, <<>>, CsvColumns(AllGood), 0)}
  \cup {File(<<".","j","s","o","n">>, TRUE, <<>>, <<>>, 0)}

\* the k-th file of the command line
FileAt(k, c) ==
  [name |-> <<"d","/","f">> \o NatToStr(k) \o c.ext, readable |-> c.readable,
   text |-> c.text, columns |-> c.columns, nrows |-> c.nrows]

FileLists ==
  {[k \in 1..Len(cs) |-> FileAt(k, cs[k])] :
     cs \in UNION {[1..n -> FileContents] : n \in 0..MaxFiles}}

LabelAt(k) == <<"L">> \o NatToStr(k)

LabelLists ==
  {[k \in 1..n |-> LabelAt(k)] : n \in 0..MaxFiles}
  \cup {<<LabelAt(1), LabelAt(1)>>}

\* what the user types for the rates of one measurement in manual entry
\* mode
ManualInputs ==
  {[severity |-> <<"5","0",".","0">>, occurrence |-> o, priority |-> <<"5","0",".","0">>] :
     o \in {<<"5","0",".","0">>, <<"n","/","a">>}}

\* the label the user types for the i-th measurement
ManualLabel(i) == <<"M">> \o NatToStr(i)

(***************************************************************************)
(* main of visualize_comparisons.py                                        *)
(***************************************************************************)
VizArgSets ==
  [files : FileLists, labels : LabelLists, manual : BOOLEAN,
   output : {None, Str(<<"o","u","t",".","p","n","g">>)}]

InitViz ==
  /\ vargs \in VizArgSets
  /\ vi = 1
  /\ data_list = <<>> /\ origin = <<>>
  /\ labels = vargs.labels
  /\ chart = <<>> /\ table = {}
  /\ pc = IF vargs.files = <<>> THEN "manual" ELSE "files"
  /\ stdout = <<>> /\ files = NoFiles
  /\ df = NoTable /\ frame = NoFrame /\ ret = NotReturned
  /\ NormIdle
  /\ MainIdle

\* lines 231-237 for the file at position i (from 1) once it was parsed to
\* r, and the test of line 240 after the last file
VizTake(r, i, path, msg) ==
  /\ stdout' = IF r.error THEN Append(stdout, [msg |-> msg, arg |-> path]) ELSE stdout
  /\ data_list' = IF DOMAIN r.rates # {} THEN Append(data_list, r.rates) ELSE data_list
  /\ origin' = IF DOMAIN r.rates # {} THEN Append(origin, i) ELSE origin
  /\ labels' = IF DOMAIN r.rates # {} /\ i - 1 >= Len(labels)
               THEN Append(labels, PathBasename(path))
               ELSE labels
  /\ vi' = i + 1
  /\ pc' = IF i < Len(vargs.files) THEN "files"
           ELSE IF vargs.manual \/ data_list' = <<>> THEN "manual"
           ELSE "create"

\* lines 222-229
parse_file(file) ==
  IF EndsWith(file.name, <<".","t","x","t">>) THEN parse_txt_file(file)
  ELSE IF EndsWith(file.name, <<".","c","s","v">>) THEN parse_csv_file(file)
  ELSE Parsed(<<>>, TRUE)

parse_message(path) ==
  IF EndsWith(path, <<".","t","x","t">>) THEN "Error parsing file"
  ELSE IF EndsWith(path, <<".","c","s","v">>) THEN "Error parsing CSV file"
  ELSE "Unsupported file format"

\* lines 222-237: one iteration of the loop over args.files
VizProcessFile ==
  /\ pc = "files"
  /\ vi <= Len(vargs.files)
  /\ VizTake(parse_file(vargs.files[vi]), vi, vargs.files[vi].name,
             parse_message(vargs.files[vi].name))
  /\ UNCHANGED <<vargs, chart, table, files, aggVars, normVars, mainVars>>

\* lines 246-261 from the i-th typed measurement on: a label is asked for
\* where none is at that position, and a rate that float() rejects ends
\* the program with the ValueError
RECURSIVE manual_entry(_, _, _, _)
manual_entry(typed, i, dl, lb) ==
  IF i > Len(typed) THEN [data_list |-> dl, labels |-> lb, error |-> FALSE]
  ELSE IF ~(/\ ParseFloat(typed[i].severity).ok
            /\ ParseFloat(typed[i].occurrence).ok
            /\ ParseFloat(typed[i].priority).ok)
  THEN [data_list |-> dl,
        labels |-> IF i - 1 >= Len(lb) THEN Append(lb, ManualLabel(i)) ELSE lb,
        error |-> TRUE]
  ELSE manual_entry(typed, i + 1,
         Append(dl, ("Severity Match Rate (%)" :> RateFloat(ParseFloat(typed[i].severity)))
                    @@ ("Occurrence Match Rate (%)" :> RateFloat(ParseFloat(typed[i].occurrence)))
                    @@ ("Priority Match Rate (%)" :> RateFloat(ParseFloat(typed[i].priority)))),
         IF i - 1 >= Len(lb) THEN Append(lb, ManualLabel(i)) ELSE lb)

VizManualDone(r) ==
  /\ data_list' = r.data_list
  /\ origin' = origin \o [k \in 1..(Len(r.data_list) - Len(data_list)) |-> 0]
  /\ labels' = r.labels
  /\ pc' = IF r.error THEN "input_error" ELSE "create"

\* lines 240-261
VizManualEntry ==
  /\ pc = "manual"
  /\ \E typed \in UNION {[1..n -> ManualInputs] : n \in 0..MaxManual} :
       VizManualDone(manual_entry(typed, 1, data_list, labels))
  /\ stdout' = Append(stdout, [msg |-> "Manual Entry Mode", arg |-> <<>>])
  /\ UNCHANGED <<vargs, vi, chart, table, files, aggVars, normVars, mainVars>>

\* lines 62-151 for the measurements ms once df_data is not empty: the
\* chart, the saved image, the pivot table and its two files; to_excel may
\* raise where the installation has no Excel writer, which line 152 ignores
VizRender(ms, out, excel) ==
  /\ chart' = df_data_of(ms)
  /\ IF pivot_fails(ms)
     THEN /\ table' = table
          /\ files' = Written(files, out, "chart")
          /\ stdout' = stdout \o warnings_of(ms)
                       \o <<[msg |-> "Visualization saved to", arg |-> out]>>
          /\ pc' = "table_error"
     ELSE /\ table' = pivot_df(ms)
          /\ files' = IF excel
                      THEN Written(Written(Written(files, out, "chart"),
                                           csv_output(out), "table"),
                                   excel_output(out), "table")
                      ELSE Written(Written(files, out, "chart"),
                                   csv_output(out), "table")
          /\ stdout' = stdout \o warnings_of(ms)
                       \o <<[msg |-> "Visualization saved to", arg |-> out],
                            [msg |-> "Comparison table saved to", arg |-> csv_output(out)]>>
                       \o (IF excel
                           THEN <<[msg |-> "Comparison table also saved to",
                                   arg |-> excel_output(out)]>>
                           ELSE <<>>)
          /\ pc' = "rendered"

\* create_comparison_visualization, lines 9-152: no data at all is an
\* error message; measurements that all fail conversion leave df_data
\* empty, and barplot raises on the frame without columns
VizCreateWith(ms, out, excel) ==
  IF data_list = <<>>
  THEN /\ stdout' = Append(stdout, [msg |-> "Error: No data provided for visualization",
                                    arg |-> <<>>])
       /\ pc' = "no_data"
       /\ UNCHANGED <<chart, table, files>>
  ELSE IF \A k \in 1..Len(ms) : ~converted(ms[k])
  THEN /\ stdout' = stdout \o warnings_of(ms)
       /\ pc' = "plot_error"
       /\ UNCHANGED <<chart, table, files>>
  ELSE VizRender(ms, out, excel)

\* lines 263-268
VizCreate ==
  /\ pc = "create"
  /\ \E excel \in BOOLEAN :
       VizCreateWith(measurements(data_list, labels), viz_output(vargs), excel)
  /\ UNCHANGED <<vargs, vi, data_list, origin, labels, aggVars, normVars, mainVars>>

NextViz == VizProcessFile \/ VizManualEntry \/ VizCreate

SpecViz == InitViz /\ [][NextViz]_vars

(***************************************************************************)
(* Properties of the normalizers (under SpecNorm).                         *)
(***************************************************************************)
Returned == canonical # Pending

\* the normalizer of an attribute
Normalize(k, v) ==
  CASE k = "severity" -> standardize_severity(v)
    [] k = "occurrence" -> standardize_occurrence(v)
    [] k = "priority" -> standardize_priority(v)

Raw_CRITICAL_A == Str(<<"C","R","I","T","I","C","A","L"," ","(","A",")">>)

Raw_URGENT_Ax == Str(<<"U","R","G","E","N","T"," ","(","A",")","x">>)

Raw_whatever_unmapped ==
  Str(<<"w","h","a","t","e","v","e","r","-","u","n","m","a","p","p","e","d">>)

\* C6 as stated: standardize_severity maps "CRITICAL (A)", "URGENT (A)x" and
\* "A - SHOWSTOPPER" to the showstopper label, and "whatever-unmapped" to
\* "WHATEVER-UNMAPPED".
C6_ThreeRawValuesAreShowstopper ==
  (kind = "severity" /\ Returned) =>
    /\ raw \in {Raw_CRITICAL_A, Raw_URGENT_Ax, Str(A_SHOWSTOPPER)}
         => canonical = Str(A_SHOWSTOPPER)
    /\ raw = Raw_whatever_unmapped
         => canonical = Str(Upper(Raw_whatever_unmapped.s))

\* C6 amended: "CRITICAL (A)" and "A - SHOWSTOPPER" map to the showstopper
\* label; "URGENT (A)x" contains no pattern and, like "whatever-unmapped", is
\* returned upper-cased: "URGENT (A)X", "WHATEVER-UNMAPPED".
C6_ShowstopperAndUnmapped ==
  (kind = "severity" /\ Returned) =>
    /\ raw \in {Raw_CRITICAL_A, Str(A_SHOWSTOPPER)}
         => canonical = Str(A_SHOWSTOPPER)
    /\ raw = Raw_URGENT_Ax
         => canonical = Str(<<"U","R","G","E","N","T"," ","(","A",")","X">>)
    /\ raw = Raw_whatever_unmapped
         => canonical =
              Str(<<"W","H","A","T","E","V","E","R","-","U","N","M","A","P","P","E","D">>)

C6_Witness ==
  /\ kind = "severity" /\ raw = Raw_URGENT_Ax
  /\ canonical = Str(<<"U","R","G","E","N","T"," ","(","A",")","X">>)

\* the keys of the two exact-match tables of standardize_occurrence
OccurrenceKeys ==
  {ai_occurrence_map[i][1] : i \in 1..Len(ai_occurrence_map)}
  \cup {user_to_ai_map[i][1] : i \in 1..Len(user_to_ai_map)}

\* C7: standardize_occurrence consults the exact tables first ("ALWAYS" is
\* CERTAIN; "25%", "50%", "75%" are FREQUENT); any other value containing "%"
\* is bucketed by its number (<= 25 FREQUENT, <= 75 VERY FREQUENT, above 75
\* CERTAIN); one whose number cannot be parsed, and one without "%" that is in
\* no table, is returned upper-cased.
C7_TablesBeforeBuckets ==
  (kind = "occurrence" /\ Returned /\ raw.t = "str") =>
    LET occ == Upper(raw.s)
    IN /\ occ = <<"A","L","W","A","Y","S">> => canonical = Str(CERTAIN)
       /\ occ \in {PercentStr(25), PercentStr(50), PercentStr(75)}
            => canonical = Str(FREQUENT)
       /\ \A n \in (0..MaxPercent) \ {25, 50, 75} :
            occ = PercentStr(n)
              => canonical = Str(IF n <= 25 THEN FREQUENT
                                 ELSE IF n <= 75 THEN VERY_FREQUENT
                                 ELSE CERTAIN)
       /\ occ = <<"1","2",".","5","%">> => canonical = Str(FREQUENT)
       /\ occ = <<"7",".","5","E","1","%">> => canonical = Str(VERY_FREQUENT)
       /\ occ = <<"1","E","2","%">> => canonical = Str(CERTAIN)
       /\ occ \in {<<"A","B","C","%">>, <<"%">>, <<"7"," ","5","%">>}
            => canonical = Str(occ)
       /\ (~Contains(occ, <<"%">>) /\ occ \notin OccurrenceKeys)
            => canonical = Str(occ)

C7_Witness ==
  /\ kind = "occurrence" /\ raw = Str(PercentStr(60))
  /\ canonical = Str(VERY_FREQUENT)

\* C8 as stated: each normalizer gives a value with surrounding white space
\* and any letter case the result of the same value trimmed and upper-cased.
C8_TrimmedAndUpperCased ==
  (Returned /\ raw.t = "str") =>
    canonical = Normalize(kind, Str(Upper(Strip(raw.s))))

\* C8 amended: each normalizer upper-cases the value and does not trim it:
\* a value in any letter case gives the result of the same value upper-cased,
\* white space kept; " high " normalizes to " HIGH ", not to MAJOR as "HIGH"
\* does.
C8_UpperCasedNotTrimmed ==
  (Returned /\ raw.t = "str") =>
    /\ canonical = Normalize(kind, Str(Upper(raw.s)))
    /\ (kind = "priority" /\ raw.s = <<" ","h","i","g","h"," ">>)
         => canonical = Str(<<" ","H","I","G","H"," ">>)
    /\ (kind = "priority" /\ raw.s = <<"h","i","g","h">>)
         => canonical = Str(MAJOR)

C8_Witness ==
  /\ kind = "priority" /\ raw = Str(<<" ","h","i","g","h"," ">>)
  /\ canonical = Str(<<" ","H","I","G","H"," ">>)

\* C10: standardize_severity returns the label of the first of "CRITICAL (A)",
\* "MAJOR (B)", "MINOR (C)", "SAFETY" contained in the upper-cased value, and
\* tests the canonical forms only when it contains none of the four.
C10_FirstRaterPatternWins ==
  (kind = "severity" /\ Returned /\ raw.t = "str") =>
    LET sev == Upper(raw.s)
        p1 == Contains(sev, <<"C","R","I","T","I","C","A","L"," ","(","A",")">>)
        p2 == Contains(sev, <<"M","A","J","O","R"," ","(","B",")">>)
        p3 == Contains(sev, <<"M","I","N","O","R"," ","(","C",")">>)
        p4 == Contains(sev, <<"S","A","F","E","T","Y">>)
    IN /\ p1 => canonical = Str(A_SHOWSTOPPER)
       /\ (~p1 /\ p2) => canonical = Str(B_MAJOR)
       /\ (~p1 /\ ~p2 /\ p3) => canonical = Str(C_MINOR)
       /\ (~p1 /\ ~p2 /\ ~p3 /\ p4) => canonical = Str(S_SAFETY_ONLY)
       /\ (~p1 /\ ~p2 /\ ~p3 /\ ~p4) =>
            canonical = Str(IF Contains(sev, A_SHOWSTOPPER) THEN A_SHOWSTOPPER
                            ELSE IF Contains(sev, B_MAJOR) THEN B_MAJOR
                            ELSE IF Contains(sev, C_MINOR) THEN C_MINOR
                            ELSE sev)

\* a value holding the third pattern before the first, and one holding the
\* fourth pattern before a different canonical form
C10_Witness ==
  /\ kind = "severity"
  /\ \/ /\ raw.s = <<"m","i","n","o","r"," ","(","c",")"," ",
                     "c","r","i","t","i","c","a","l"," ","(","a",")">>
        /\ canonical = Str(A_SHOWSTOPPER)
     \/ /\ raw.s = <<"s","a","f","e","t","y"," ","b"," ","-"," ","m","a","j","o","r">>
        /\ canonical = Str(S_SAFETY_ONLY)

(***************************************************************************)
(* Properties of calculate_match_rates (under SpecAgg).                    *)
(***************************************************************************)
AggReturned == ret.t = "tuple"

\* a raw cell that is null or missing: None, or the NaN of an empty cell
IsMissing(v) == v = None \/ v = NaN

UserCol(a) ==
  CASE a = "severity" -> "user_severity"
    [] a = "occurrence" -> "user_occurrence"
    [] a = "priority" -> "user_priority"

AiCol(a) ==
  CASE a = "severity" -> "ai_severity"
    [] a = "occurrence" -> "ai_occurrence"
    [] a = "priority" -> "ai_priority"

UserStd(a) ==
  CASE a = "severity" -> "user_severity_std"
    [] a = "occurrence" -> "user_occurrence_std"
    [] a = "priority" -> "user_priority_std"

AiStd(a) ==
  CASE a = "severity" -> "ai_severity_std"
    [] a = "occurrence" -> "ai_occurrence_std"
    [] a = "priority" -> "ai_priority_std"

MatchCol(a) ==
  CASE a = "severity" -> "severity_match"
    [] a = "occurrence" -> "occurrence_match"
    [] a = "priority" -> "priority_match"

RateLocal(a) ==
  CASE a = "severity" -> "severity_match_rate"
    [] a = "occurrence" -> "occurrence_match_rate"
    [] a = "priority" -> "priority_match_rate"

RateKey(a) ==
  CASE a = "severity" -> "Severity Match Rate (%)"
    [] a = "occurrence" -> "Occurrence Match Rate (%)"
    [] a = "priority" -> "Priority Match Rate (%)"

ValidKey(a) ==
  CASE a = "severity" -> "Valid Severity Comparisons"
    [] a = "occurrence" -> "Valid Occurrence Comparisons"
    [] a = "priority" -> "Valid Priority Comparisons"

\* rows of the returned table flagged as a match for attribute a
Matching(a) ==
  {i \in 1..Len(ret.metrics_df) : ret.metrics_df[i][MatchCol(a)]}

\* rows of the returned table whose two canonical values of a are non-null
BothCanonical(a) ==
  {i \in 1..Len(ret.metrics_df) :
     ret.metrics_df[i][UserStd(a)] # None /\ ret.metrics_df[i][AiStd(a)] # None}

\* rows whose six canonical values are all non-null
SixCanonical == BothCanonical("severity") \cap BothCanonical("occurrence")
                \cap BothCanonical("priority")

\* rows that are a composite match
Composite == SixCanonical \cap Matching("severity") \cap Matching("occurrence")
             \cap Matching("priority")

\* rate (a fraction of a percentage) and reported (hundredths of a percent)
\* are m / v x 100, the reported value to the nearest hundredth, and 0 when
\* v is 0
IsRateOf(rate, reported, m, v) ==
  IF v = 0
  THEN rate.num = 0 /\ reported = 0
  ELSE /\ rate.num * v = m * 100 * rate.den
       /\ 2 * (reported * v - m * 10000) <= v
       /\ 2 * (m * 10000 - reported * v) <= v

\* C1: a row is flagged as a match for an attribute iff its two canonical
\* values are non-null and equal, and a row whose raw value is missing on
\* either side or on both is never flagged.
C1_MissingValueNeverMatches ==
  AggReturned =>
    \A i \in 1..Len(ret.metrics_df), a \in Kinds :
      LET r == ret.metrics_df[i]
      IN /\ r[MatchCol(a)] <=>
              (r[UserStd(a)] # None /\ r[AiStd(a)] # None /\ r[UserStd(a)] = r[AiStd(a)])
         /\ (IsMissing(df.rows[i][UserCol(a)]) \/ IsMissing(df.rows[i][AiCol(a)]))
              => ~r[MatchCol(a)]

\* C2: a row with a null or missing automated severity is excluded from
\* 'Valid Severity Comparisons' and from the denominator of the overall rate;
\* it is counted in 'Total Issues Analyzed', and in the occurrence and
\* priority valid counts when those values are present on both sides.
C2_NullAiSeverityRowExcluded ==
  AggReturned =>
    LET n == Len(df.rows)
        miss == {i \in 1..n : IsMissing(df.rows[i]["ai_severity"])}
        present(a) == {i \in miss : ~IsMissing(df.rows[i][UserCol(a)])
                                    /\ ~IsMissing(df.rows[i][AiCol(a)])}
    IN /\ ret.results["Valid Severity Comparisons"] <= n - Cardinality(miss)
       /\ frame.valid_all <= n - Cardinality(miss)
       /\ ret.results["Total Issues Analyzed"] = n
       /\ ret.results["Valid Occurrence Comparisons"] >= Cardinality(present("occurrence"))
       /\ ret.results["Valid Priority Comparisons"] >= Cardinality(present("priority"))

\* C4: each attribute's match rate is (rows flagged as matching) / (rows with
\* both canonical values non-null) x 100, reported to two decimals, and 0 when
\* there is no valid comparison; the match count never exceeds the valid
\* count, so the rate lies between 0 and 100.
C4_RateIsMatchesOverValid ==
  AggReturned =>
    \A a \in Kinds :
      LET m == Cardinality(Matching(a))
          v == Cardinality(BothCanonical(a))
          rate == frame[RateLocal(a)]
          reported == ret.results[RateKey(a)]
      IN /\ m <= v
         /\ ret.results[ValidKey(a)] = v
         /\ IsRateOf(rate, reported, m, v)
         /\ 0 <= rate.num /\ rate.num <= 100 * rate.den
         /\ 0 <= reported /\ reported <= 10000

\* one match in two valid severity comparisons (50.00) and no valid priority
\* comparison (0)
C4_Witness ==
  /\ AggReturned
  /\ Cardinality(Matching("severity")) = 1
  /\ Cardinality(BothCanonical("severity")) = 2
  /\ ret.results["Severity Match Rate (%)"] = 5000
  /\ Len(df.rows) > 0
  /\ BothCanonical("priority") = {}
  /\ ret.results["Priority Match Rate (%)"] = 0

\* C5: a row is a composite match iff its six canonical values are non-null
\* and its three match flags are true; the overall rate is the number of such
\* rows over the number of rows with six non-null canonical values, x 100
\* (0 when there is none); the composite count exceeds no attribute's match
\* count.
C5_CompositeIsAllThree ==
  AggReturned =>
    /\ \A i \in 1..Len(ret.metrics_df) :
         ret.metrics_df[i]["all_match"] <=> i \in Composite
    /\ frame.valid_all = Cardinality(SixCanonical)
    /\ IsRateOf(frame.overall_match_rate, ret.results["Overall Match Rate (%)"],
                Cardinality(Composite), Cardinality(SixCanonical))
    /\ \A a \in Kinds : Cardinality(Composite) <= Cardinality(Matching(a))

\* two rows with six non-null canonical values, one of them a composite match
\* and the other matching on severity and occurrence only
C5_Witness ==
  /\ AggReturned
  /\ Cardinality(SixCanonical) = 2
  /\ Cardinality(Composite) = 1
  /\ Cardinality(Matching("severity")) = 2
  /\ Cardinality(Matching("occurrence")) = 2
  /\ ret.results["Overall Match Rate (%)"] = 5000

(***************************************************************************)
(* Properties of main of match-rates-script.py (under SpecMain).           *)
(***************************************************************************)
Printed(m) == \E i \in 1..Len(stdout) : stdout[i].msg = m

SavedMessages ==
  {"Results saved to", "Text results saved to", "Detailed metrics saved to",
   "Detailed text breakdown saved to"}

\* the table was read, lacks a required column, and main is past the call
LacksColumnAfterCall ==
  /\ pc \in {"write_results", "write_txt", "write_detailed", "write_detailed_txt", "done"}
  /\ csv.readable
  /\ \E c \in RequiredSet : c \notin df.columns

\* C3: when the table lacks a required column, calculate_match_rates reports
\* the missing columns and returns no result record (None), and main stops:
\* it prints no match-rate results and writes no output file.
C3_MissingColumnsNoOutput ==
  LacksColumnAfterCall =>
    /\ ret.t = "None"
    /\ \E i \in 1..Len(stdout) :
         /\ stdout[i].msg = "Warning: Missing columns in CSV"
         /\ {stdout[i].arg[j] : j \in 1..Len(stdout[i].arg)} = RequiredSet \ df.columns
    /\ pc = "done"
    /\ ~Printed("=== MATCH RATE RESULTS ===")
    /\ ~Printed("=== DETAILED BREAKDOWN ===")
    /\ \A m \in SavedMessages : ~Printed(m)
    /\ files = NoFiles

\* a run asked for every output on a table without ai_severity
C3_Witness ==
  /\ LacksColumnAfterCall
  /\ "ai_severity" \notin df.columns
  /\ args.output /\ args.detailed
  /\ Printed("Error processing CSV file")
  /\ files = NoFiles

(***************************************************************************)
(* Properties of the visualization, checked under SpecViz.                 *)
(***************************************************************************)
\* create_comparison_visualization was called and has returned or raised
VizCreated == pc \in {"rendered", "table_error", "plot_error", "no_data"}

\* a rate line of a text report holds a text that float() rejects
TxtFails(file) ==
  /\ file.readable
  /\ \E line \in {StrSplit(file.text, "\n")[j] :
                    j \in 1..Len(StrSplit(file.text, "\n"))} :
       /\ txt_key(line) # ""
       /\ Len(StrSplit(line, ":")) > 1
       /\ ~ParseFloat(Strip(StrSplit(line, ":")[2])).ok

\* a rate column of a tabular file holds a value that float() rejects
CsvFails(file) ==
  /\ file.readable /\ file.nrows > 0
  /\ \E j \in 1..Len(file.columns) :
       csv_key(file.columns[j].name) # "" /\ ~to_float(file.columns[j].first).ok

FailsConversion(file) ==
  \/ EndsWith(file.name, <<".","t","x","t">>) /\ TxtFails(file)
  \/ EndsWith(file.name, <<".","c","s","v">>) /\ CsvFails(file)

\* the file is read without an error and every rate it holds is a number
Remaining(file) ==
  /\ ~parse_file(file).error
  /\ DOMAIN parse_file(file).rates # {}
  /\ converted(measurement(parse_file(file).rates, <<>>, 0))

\* the bars and the table rows that come from the file at position k
BarsOf(k) == {j \in 1..Len(chart) : origin[chart[j].i] = k}

RowsOf(k) == {r \in table : origin[r.i] = k}

\* C9: an input file in which a rate fails numeric conversion contributes no
\* bar and no table row, not even for its other rates and not with a
\* substitute value, and once create_comparison_visualization has run every
\* file whose rates are all numbers is charted with its three bars.
C9_FailedConversionDropsWholeMeasurement ==
  /\ \A k \in 1..Len(vargs.files) :
       FailsConversion(vargs.files[k]) => BarsOf(k) = {} /\ RowsOf(k) = {}
  /\ VizCreated =>
       \A k \in 1..Len(vargs.files) :
         Remaining(vargs.files[k]) => Cardinality(BarsOf(k)) = 3

\* the label the command line gives the file at position k: the one at the
\* same position of --labels, else the base name of the file
LabelOfFile(k) ==
  IF k <= Len(vargs.labels) THEN vargs.labels[k]
  ELSE PathBasename(vargs.files[k].name)

\* data_list is complete and is, or was, the argument of
\* create_comparison_visualization
HandedToChart == pc \in {"create", "rendered", "table_error", "plot_error"}

\* C11: every measurement handed to the chart that came from a file carries
\* the label supplied at the position of that file in --labels, or the base
\* name of the file where no label was supplied there, on the way in and on
\* each of its bars; a skipped file does not shift the labels of the files
\* after it.
C11_LabelFollowsItsFile ==
  HandedToChart =>
    /\ \A j \in 1..Len(data_list) :
         origin[j] > 0 => label_of(labels, j) = LabelOfFile(origin[j])
    /\ \A b \in 1..Len(chart) :
         origin[chart[b].i] > 0 => chart[b].Measurement = LabelOfFile(origin[chart[b].i])

(***************************************************************************)
(* Idempotence of the normalizers, checked under SpecNorm.                 *)
(***************************************************************************)
CanonicalLabels(k) ==
  CASE k = "severity" -> {A_SHOWSTOPPER, B_MAJOR, C_MINOR, S_SAFETY_ONLY}
    [] k = "occurrence" -> {CERTAIN, VERY_FREQUENT, FREQUENT, RARE}
    [] k = "priority" -> {BLOCKER, CRITICAL, MAJOR, MINOR}

\* the cells of attribute k in the input tables
CellValues(k) ==
  LET pairs == CASE k = "severity" -> SeverityPairs
                 [] k = "occurrence" -> OccurrencePairs
                 [] k = "priority" -> PriorityPairs
  IN {p[1] : p \in pairs} \cup {p[2] : p \in pairs}

\* C12: for every non-null raw value, the normalizer applied to its own
\* result gives that result again; a canonical label is returned as it is;
\* and the match flag of the value against any cell of a table is the same
\* when both normalized values are normalized once more.
C12_NormalizerIdempotent ==
  (Returned /\ raw # None) =>
    /\ Normalize(kind, canonical) = canonical
    /\ (raw.t = "str" /\ raw.s \in CanonicalLabels(kind)) => canonical = raw
    /\ \A y \in CellValues(kind) :
         series_eq(canonical, Normalize(kind, y))
           <=> series_eq(Normalize(kind, canonical),
                         Normalize(kind, Normalize(kind, y)))

\* a rater's label that is mapped to another text, whose result is a fixed
\* point
C12_Witness ==
  /\ Returned
  /\ kind = "priority"
  /\ raw = Str(<<"m","e","d","i","u","m">>)
  /\ canonical = Str(MAJOR)
  /\ Normalize(kind, canonical) = canonical

(***************************************************************************)
(* The output files of main of match-rates-script.py, under SpecMain.      *)
(***************************************************************************)
\* the path printed with message m, where main has printed it
SavedAt(m, path, content) ==
  Printed(m) => path \in DOMAIN files /\ files[path] = content

\* the paths of the outputs that the run writes
RequestedPaths ==
  <<output_file.s, txt_output_file(output_file.s)>>
  \o (IF args.detailed
      THEN <<detailed_output(output_file.s), detailed_txt_output(output_file.s)>>
      ELSE <<>>)

\* C13: the outputs of a run are written to pairwise different paths, so a
\* file that main reported as saved keeps its own content for the rest of
\* the run, and after a run without a failed write each requested output
\* exists with its own content.
C13_OutputsKeepTheirContent ==
  output_file # None =>
    /\ \A i, j \in 1..Len(RequestedPaths) :
         i # j => RequestedPaths[i] # RequestedPaths[j]
    /\ SavedAt("Results saved to", output_file.s, "results table")
    /\ SavedAt("Text results saved to", txt_output_file(output_file.s), "text report")
    /\ SavedAt("Detailed metrics saved to", detailed_output(output_file.s),
               "detailed table")
    /\ SavedAt("Detailed text breakdown saved to",
               detailed_txt_output(output_file.s), "detailed text report")

====
